---- MODULE Spec2Model ----
(***************************************************************************)
(* Model of buttplug-patterns: the pattern combinator algebra              *)
(* (src/src/shapes.rs, src/src/random.rs, src/src/transformers.rs) and the *)
(* Driver run loop (src/src/lib.rs).                                       *)
(*                                                                         *)
(* Units.  A Duration is an integer number of milliseconds.  An intensity  *)
(* is an integer number of hundredths (100 stands for 1.0).  The parameter *)
(* sets below are chosen so that every division the code performs in       *)
(* floating point is exact on these integers.                              *)
(***************************************************************************)
EXTENDS Integers, Sequences, FiniteSets, TLC

VARIABLES
    node,   \* algebra: the pattern value under evaluation (owns its children)
    out,    \* algebra: the last call made on node and what it returned
    now     \* algebra: the wall clock that Instant::now() reads, in milliseconds

avars == <<node, out, now>>

VARIABLES
    tickrate_hz,        \* Driver.tickrate_hz
    pattern,            \* Driver.pattern, the global pattern
    device_patterns,    \* Driver.device_patterns: device id -> pattern
    actuator_patterns,  \* Driver.actuator_patterns: <<device id, actuator id>> -> pattern
    connected,          \* the devices the shared ButtplugClient holds
    pc,                 \* where the Driver is: idle, loop, devices, stop, returned,
                        \* panicked
    running,            \* run_while's `running` argument, owned by the run
    caller_cleared,     \* the caller has cleared the flag it still holds
    period,             \* run_while: the interval's period, 1000 / tickrate_hz
    intervals,          \* run_while: completed interval.tick() calls
    elapsed,            \* run_while: `elapsed` of the current iteration
    global_intensity,   \* run_while: the tick's sample of the global pattern
    snapshot,           \* run_while: the Vec that buttplug.devices() returned
    di,                 \* run_while: position of the device loop in snapshot
    ai,                 \* run_while: position of the actuator loop
    actuator_map,       \* run_while: the device's actuator id -> level map
    sent,               \* the vibrate commands the client accepted in this tick
    ticks,              \* iterations of this run that sampled the global pattern
    stops,              \* stop_all_devices calls of this run
    result,             \* what the last run returned: none, ok, err
    runs,               \* runs started so far
    ops                 \* configuration calls made so far

dvars == <<tickrate_hz, pattern, device_patterns, actuator_patterns, connected, pc,
           running, caller_cleared, period, intervals, elapsed, global_intensity,
           snapshot, di, ai, actuator_map, sent, ticks, stops, result, runs, ops>>
vars == <<avars, dvars>>

\* ------------------------------------------------------------------ bounds
MaxRuns == 2      \* runs started on one Driver
MaxOps == 2       \* configuration calls made on one Driver
MaxTime == 6      \* largest time handed to sample() by the algebra harness
MaxNow == 4       \* latest wall-clock instant of the RandomEvery harness

Max(a, b) == IF a >= b THEN a ELSE b
Min(a, b) == IF a <= b THEN a ELSE b

\* ---------------------------------------------------------- pattern nodes
\* shapes.rs
Pause(d) == [kind |-> "Pause", duration |-> d]
Constant(l, d) == [kind |-> "Constant", level |-> l, duration |-> d]
Linear(f, t, d) == [kind |-> "Linear", from |-> f, to |-> t, duration |-> d]
SquareWave(a, w) == [kind |-> "SquareWave", amplitude |-> a, wavelength |-> w]
\* random.rs: RandomWalk::new starts with state 0
RandomWalkNew(lo, hi, d, inc, dec) ==
    [kind |-> "RandomWalk", start |-> lo, end |-> hi, duration |-> d,
     increase |-> inc, decrease |-> dec, state |-> 0]
\* rand::random_range(range): the draw is one of two values of the range, its
\* start or its midpoint, as the coin says
random_range(lo, hi, coin) == IF coin THEN lo + (hi - lo) \div 2 ELSE lo
\* random.rs: RandomEvery::new draws the first value and takes the time.
\* drawn_at is not a field of the struct: it records the instant at which
\* last_value was drawn, which last_time is meant to be.
RandomEveryNew(lo, hi, d, iv, coin) ==
    [kind |-> "RandomEvery", start |-> lo, end |-> hi, duration |-> d, interval |-> iv,
     last_time |-> now, last_value |-> random_range(lo, hi, coin), drawn_at |-> now]
\* lib.rs: the constructors of the Pattern extension trait
ScaleTimeOf(p, s) == [kind |-> "ScaleTime", pattern |-> p, scalar |-> s]
ShiftOf(p, d) == [kind |-> "Shift", pattern |-> p, time_shift |-> d]
ScaleIntensityOf(p, s) == [kind |-> "ScaleIntensity", pattern |-> p, scalar |-> s]
SumOf(a, b) == [kind |-> "Sum", a |-> a, b |-> b]
SubtractOf(a, b) == [kind |-> "Subtract", a |-> a, b |-> b]
AverageOf(a, b) == [kind |-> "Average", a |-> a, b |-> b]
ClampOf(p, lo, hi) == [kind |-> "Clamp", pattern |-> p, floor |-> lo, ceiling |-> hi]
RepeatOf(p, count2) == [kind |-> "Repeat", pattern |-> p, count2 |-> count2]
ForeverOf(p) == [kind |-> "Forever", pattern |-> p]
ChainOf(a, b) == [kind |-> "Chain", first |-> a, then |-> b]
CrossfadeNew(a, b, ov) ==
    [kind |-> "Crossfade", first |-> a, then |-> b, overlap_duration |-> ov]
AmplitudeModulatorOf(p, m) == [kind |-> "AmplitudeModulator", pattern |-> p, modulator |-> m]

UnaryKinds == {"ScaleTime", "ScaleIntensity", "Clamp", "Shift", "Repeat", "Forever"}
BinaryABKinds == {"Sum", "Subtract", "Average"}
ChainKinds == {"Chain", "Crossfade"}

\* Number of random leaves of a tree: each gets its own draw in one sample().
RECURSIVE NumRandom(_)
NumRandom(n) ==
    CASE n.kind \in {"RandomWalk", "RandomEvery"} -> 1
      [] n.kind \in UnaryKinds -> NumRandom(n.pattern)
      [] n.kind \in BinaryABKinds -> NumRandom(n.a) + NumRandom(n.b)
      [] n.kind \in ChainKinds -> NumRandom(n.first) + NumRandom(n.then)
      [] n.kind = "AmplitudeModulator" -> NumRandom(n.pattern) + NumRandom(n.modulator)
      [] OTHER -> 0

\* The draws left for the right child once the left child took its own.
RestCoins(c, left) ==
    IF NumRandom(left) >= Len(c) THEN <<>> ELSE SubSeq(c, NumRandom(left) + 1, Len(c))

\* Duration::MAX, as a value above every time of the model.
DurationMAX == 1000000000

\* A sample() outcome: the value, the node after the call (sample takes
\* &mut self), and whether the call returned (FALSE: it panicked).
Out(v, n) == [v |-> v, n |-> n, ok |-> TRUE]
Panicked(n) == [v |-> 0, n |-> n, ok |-> FALSE]

RECURSIVE Duration(_)
RECURSIVE Sample(_, _, _)

\* ---------------------------------------------------------------- shapes
PauseSample(n, t) == 0
ConstantSample(n, t) == n.level
\* from + (to - from) * t / duration
LinearSample(n, t) == n.from + ((n.to - n.from) * t) \div n.duration
\* amplitude while (t mod wavelength) < wavelength / 2, else 0
SquareWaveSample(n, t) ==
    IF 2 * (t % n.wavelength) < n.wavelength THEN n.amplitude ELSE 0

\* ---------------------------------------------------------------- random
\* Whether the candidate drawn from range exceeds the state: the draw decides
\* where both outcomes are possible.
RandomWalkExceeds(n, coin) ==
    IF n.state < n.start THEN TRUE
    ELSE IF n.state >= n.end THEN FALSE
    ELSE coin

\* state += (if value > state { increase } else { -decrease })
\*              .max(range.start).min(range.end)
RandomWalkStep(n, coin) ==
    n.state + Min(Max(IF RandomWalkExceeds(n, coin) THEN n.increase ELSE 0 - n.decrease,
                      n.start), n.end)

RandomWalkSample(n, coin) ==
    Out(RandomWalkStep(n, coin), [n EXCEPT !.state = RandomWalkStep(n, coin)])

RandomWalkReset(n) == [n EXCEPT !.state = 0]

\* RandomEvery::sample: redraw, and take the time, once last_time.elapsed()
\* exceeds the interval; return last_value
RandomEverySample(n, coin) ==
    IF now - n.last_time > n.interval
    THEN Out(random_range(n.start, n.end, coin),
             [n EXCEPT !.last_time = now,
                       !.last_value = random_range(n.start, n.end, coin),
                       !.drawn_at = now])
    ELSE Out(n.last_value, n)

\* RandomEvery::reset draws a new last_value and leaves last_time as it is
RandomEveryReset(n, coin) ==
    [n EXCEPT !.last_value = random_range(n.start, n.end, coin), !.drawn_at = now]

\* ----------------------------------------------------------- transformers
\* pattern.sample(Duration::from_secs_f64(scalar * (1.0 / time.as_secs_f64()))).
\* With time in milliseconds, scalar * (1 / (t / 1000)) seconds are
\* scalar * 1000000 / t milliseconds (kept to the whole millisecond).  At
\* time 0 the quotient is infinite and Duration::from_secs_f64 panics.
ScaleTimeSample(n, t, c) ==
    IF t = 0 THEN Panicked(n)
    ELSE LET r == Sample(n.pattern, (n.scalar * 1000000) \div t, c)
         IN  [v |-> r.v, n |-> [n EXCEPT !.pattern = r.n], ok |-> r.ok]

\* pattern.sample(time + time_shift)
ShiftSample(n, t, c) ==
    LET r == Sample(n.pattern, t + n.time_shift, c)
    IN  [v |-> r.v, n |-> [n EXCEPT !.pattern = r.n], ok |-> r.ok]

\* pattern.duration() - time_shift: a Duration subtraction, which panics
\* when time_shift is the longer of the two
ShiftDurationOverflows(n) == n.time_shift > Duration(n.pattern)
ShiftDuration(n) == Duration(n.pattern) - n.time_shift

ScaleIntensitySample(n, t, c) ==
    LET r == Sample(n.pattern, t, c)
    IN  [v |-> n.scalar * r.v, n |-> [n EXCEPT !.pattern = r.n], ok |-> r.ok]

\* a.sample(time) and then b.sample(time), each on its own child
SampleBoth(n, t, c) ==
    LET ra == Sample(n.a, t, c)
        rb == Sample(n.b, t, RestCoins(c, n.a))
    IN  [va |-> ra.v, vb |-> rb.v, n |-> [n EXCEPT !.a = ra.n, !.b = rb.n],
         ok |-> ra.ok /\ rb.ok]

SumSample(n, t, c) ==
    LET r == SampleBoth(n, t, c) IN [v |-> r.va + r.vb, n |-> r.n, ok |-> r.ok]
SubtractSample(n, t, c) ==
    LET r == SampleBoth(n, t, c) IN [v |-> r.va - r.vb, n |-> r.n, ok |-> r.ok]
\* (a + b) / 2.0: the leaves of the model keep the sum even
AverageSample(n, t, c) ==
    LET r == SampleBoth(n, t, c) IN [v |-> (r.va + r.vb) \div 2, n |-> r.n, ok |-> r.ok]

ClampSample(n, t, c) ==
    LET r == Sample(n.pattern, t, c)
    IN  [v |-> Min(Max(r.v, n.floor), n.ceiling), n |-> [n EXCEPT !.pattern = r.n],
         ok |-> r.ok]

\* count * pattern.duration(); count2 is twice the count, so 3 is 1.5 repeats
RepeatDuration(n) == (n.count2 * Duration(n.pattern)) \div 2

\* pattern.sample(time % self.duration())
RepeatSample(n, t, c) ==
    LET r == Sample(n.pattern, t % RepeatDuration(n), c)
    IN  [v |-> r.v, n |-> [n EXCEPT !.pattern = r.n], ok |-> r.ok]

ForeverDuration(n) == DurationMAX

\* pattern.sample(time % pattern.duration())
ForeverSample(n, t, c) ==
    LET r == Sample(n.pattern, t % Duration(n.pattern), c)
    IN  [v |-> r.v, n |-> [n EXCEPT !.pattern = r.n], ok |-> r.ok]

ChainDuration(n) == Duration(n.first) + Duration(n.then)

\* if time < first.duration() { first.sample(time) } else { then.sample(time) }
ChainSample(n, t, c) ==
    IF t < Duration(n.first)
    THEN LET r == Sample(n.first, t, c)
         IN  [v |-> r.v, n |-> [n EXCEPT !.first = r.n], ok |-> r.ok]
    ELSE LET r == Sample(n.then, t, RestCoins(c, n.first))
         IN  [v |-> r.v, n |-> [n EXCEPT !.then = r.n], ok |-> r.ok]

CrossfadeDuration(n) == Duration(n.first) + Duration(n.then) - n.overlap_duration

\* sample_overlap: progress = (time - (first.duration() - overlap)) / overlap;
\* first.sample(time) * (1 - progress) + then.sample(time) * progress
CrossfadeSampleOverlap(n, t, c) ==
    LET k == t - (Duration(n.first) - n.overlap_duration)
        ra == Sample(n.first, t, c)
        rb == Sample(n.then, t, RestCoins(c, n.first))
    IN  IF ~ra.ok THEN Panicked([n EXCEPT !.first = ra.n])
        ELSE [v |-> (ra.v * (n.overlap_duration - k) + rb.v * k) \div n.overlap_duration,
              n |-> [n EXCEPT !.first = ra.n, !.then = rb.n], ok |-> rb.ok]

\* The variant of Crossfade whose last branch forgets the overlap shift and
\* restarts `then` at its own origin.
CrossfadeSampleRestart(n, t, c) ==
    IF n.overlap_duration > Duration(n.first) THEN Panicked(n)
    ELSE IF t < Duration(n.first) - n.overlap_duration
    THEN LET r == Sample(n.first, t, c)
         IN  [v |-> r.v, n |-> [n EXCEPT !.first = r.n], ok |-> r.ok]
    ELSE IF t < Duration(n.first) THEN CrossfadeSampleOverlap(n, t, c)
    ELSE LET r == Sample(n.then, t - Duration(n.first), RestCoins(c, n.first))
         IN  [v |-> r.v, n |-> [n EXCEPT !.then = r.n], ok |-> r.ok]

\* Crossfade::sample.  `first.duration() - overlap_duration` is a Duration
\* subtraction: it panics when the overlap is longer than first; so does
\* `time - overlap_duration` in the last branch.
CrossfadeSample(n, t, c) ==
    IF n.overlap_duration > Duration(n.first) THEN Panicked(n)
    ELSE IF t < Duration(n.first) - n.overlap_duration
    THEN LET r == Sample(n.first, t, c)
         IN  [v |-> r.v, n |-> [n EXCEPT !.first = r.n], ok |-> r.ok]
    ELSE IF t < Duration(n.first) THEN CrossfadeSampleOverlap(n, t, c)
    ELSE IF n.overlap_duration > t THEN Panicked(n)
    ELSE LET r == Sample(n.then, t - n.overlap_duration, RestCoins(c, n.first))
         IN  [v |-> r.v, n |-> [n EXCEPT !.then = r.n], ok |-> r.ok]

\* pattern.sample(time) * modulator.sample(time); 100 stands for 1.0
AmplitudeModulatorSample(n, t, c) ==
    LET ra == Sample(n.pattern, t, c)
        rb == Sample(n.modulator, t, RestCoins(c, n.pattern))
    IN  IF ~ra.ok THEN Panicked([n EXCEPT !.pattern = ra.n])
        ELSE [v |-> (ra.v * rb.v) \div 100,
              n |-> [n EXCEPT !.pattern = ra.n, !.modulator = rb.n], ok |-> rb.ok]

\* ------------------------------------------------- PatternGenerator trait
Duration(n) ==
    CASE n.kind = "SquareWave" -> n.wavelength
      [] n.kind \in {"ScaleTime", "ScaleIntensity", "Clamp"} -> Duration(n.pattern)
      [] n.kind = "Shift" -> ShiftDuration(n)
      [] n.kind \in BinaryABKinds -> Max(Duration(n.a), Duration(n.b))
      [] n.kind = "Repeat" -> RepeatDuration(n)
      [] n.kind = "Forever" -> ForeverDuration(n)
      [] n.kind = "Chain" -> ChainDuration(n)
      [] n.kind = "Crossfade" -> CrossfadeDuration(n)
      [] n.kind = "AmplitudeModulator" -> Duration(n.pattern)
      [] OTHER -> n.duration

Sample(n, t, c) ==
    CASE n.kind = "Pause" -> Out(PauseSample(n, t), n)
      [] n.kind = "Constant" -> Out(ConstantSample(n, t), n)
      [] n.kind = "Linear" -> Out(LinearSample(n, t), n)
      [] n.kind = "SquareWave" -> Out(SquareWaveSample(n, t), n)
      [] n.kind = "RandomWalk" -> RandomWalkSample(n, Len(c) > 0 /\ c[1])
      [] n.kind = "RandomEvery" -> RandomEverySample(n, Len(c) > 0 /\ c[1])
      [] n.kind = "ScaleTime" -> ScaleTimeSample(n, t, c)
      [] n.kind = "Shift" -> ShiftSample(n, t, c)
      [] n.kind = "ScaleIntensity" -> ScaleIntensitySample(n, t, c)
      [] n.kind = "Sum" -> SumSample(n, t, c)
      [] n.kind = "Subtract" -> SubtractSample(n, t, c)
      [] n.kind = "Average" -> AverageSample(n, t, c)
      [] n.kind = "Clamp" -> ClampSample(n, t, c)
      [] n.kind = "Repeat" -> RepeatSample(n, t, c)
      [] n.kind = "Forever" -> ForeverSample(n, t, c)
      [] n.kind = "Chain" -> ChainSample(n, t, c)
      [] n.kind = "Crossfade" -> CrossfadeSample(n, t, c)
      [] n.kind = "AmplitudeModulator" -> AmplitudeModulatorSample(n, t, c)

\* PatternGenerator::reset: RandomWalk and RandomEvery override it; every
\* other node keeps the trait's default, `fn reset(&mut self) {}`.  c holds
\* the outcome of the draw a RandomEvery makes.
Reset(n, c) ==
    CASE n.kind = "RandomWalk" -> RandomWalkReset(n)
      [] n.kind = "RandomEvery" -> RandomEveryReset(n, Len(c) > 0 /\ c[1])
      [] OTHER -> n

\* PatternGenerator::duration as a call: FALSE when it panics.  Shift is the
\* one node whose duration() can; the model builds it over leaves only, so no
\* other duration() meets an overflowing child.
DurationReturns(n) == ~(n.kind = "Shift" /\ ShiftDurationOverflows(n))

\* ================================================================ algebra
\* The parameter values of the model.  Intensities are multiples of 20 and
\* durations are even, which keeps the code's floating-point divisions exact.
StatelessLeaves ==
    {Pause(4), Constant(20, 2), Linear(0, 40, 2), Linear(100, 20, 4), SquareWave(80, 2)}
RandomLeaves ==
    {RandomWalkNew(0, 100, 4, 40, 20), RandomWalkNew(0 - 40, 60, 2, 20, 20)}
Leaves == StatelessLeaves \cup RandomLeaves
Counts2 == {2, 3, 4}        \* Repeat counts 1.0, 1.5 and 2.0
Overlaps == {0, 2}          \* Crossfade overlap durations
Shifts == {2, 6}            \* Shift amounts: within the leaf durations, and beyond
Scalars == {1, 2}           \* ScaleTime scalars

Wrapped ==
    {RepeatOf(p, k) : p \in Leaves, k \in Counts2}
        \cup {ForeverOf(p) : p \in Leaves}
        \cup {ChainOf(a, b) : a \in Leaves, b \in StatelessLeaves}
        \cup {ChainOf(a, b) : a \in StatelessLeaves, b \in RandomLeaves}
Trees ==
    Leaves \cup Wrapped
        \cup {CrossfadeNew(a, b, ov) : a \in Leaves, b \in StatelessLeaves, ov \in Overlaps}
        \cup {CrossfadeNew(a, b, ov) : a \in StatelessLeaves, b \in RandomLeaves, ov \in Overlaps}
        \cup {SumOf(a, b) : a \in RandomLeaves, b \in Leaves}
        \cup {SubtractOf(a, b) : a \in StatelessLeaves, b \in RandomLeaves}
        \cup {AverageOf(a, b) : a \in RandomLeaves, b \in StatelessLeaves}
        \cup {AmplitudeModulatorOf(a, b) : a \in StatelessLeaves, b \in RandomLeaves}
        \cup {ScaleIntensityOf(p, 2) : p \in Leaves}
        \cup {ClampOf(p, 0, 100) : p \in Leaves}
        \cup {ShiftOf(p, d) : p \in Leaves, d \in Shifts}
        \cup {ScaleTimeOf(p, s) : p \in Leaves, s \in Scalars}
        \cup {ForeverOf(RepeatOf(p, 4)) : p \in RandomLeaves}
        \cup {RepeatOf(ChainOf(a, b), 4) : a \in RandomLeaves, b \in {Constant(20, 2)}}

\* One outcome for each random draw a sample() of n can make.
Coins(n) == [1..NumRandom(n) -> BOOLEAN]
\* out: the call, its arguments, what it returned, the node before it (pre)
\* and the wall-clock instant it was made at (at)
NoCall ==
    [op |-> "none", t |-> 0, c |-> <<>>, v |-> 0, ok |-> TRUE, pre |-> Pause(2), at |-> 0]

AlgIdle ==
    /\ node = Pause(2)
    /\ out = NoCall
    /\ now = 0

\* node.sample(t), with c the outcomes of the random draws it makes
CallSample ==
    /\ out.ok
    /\ \E t \in 0..MaxTime, c \in Coins(node) :
          LET r == Sample(node, t, c)
          IN  /\ node' = r.n
              /\ out' = [op |-> "sample", t |-> t, c |-> c, v |-> r.v, ok |-> r.ok,
                         pre |-> node, at |-> now]
    /\ UNCHANGED <<now, dvars>>

\* node.duration()
CallDuration ==
    /\ out.ok
    /\ out' = [op |-> "duration", t |-> 0, c |-> <<>>,
               v |-> IF DurationReturns(node) THEN Duration(node) ELSE 0,
               ok |-> DurationReturns(node), pre |-> node, at |-> now]
    /\ UNCHANGED <<node, now, dvars>>

\* node.reset(), with c the outcome of the draw it makes
CallReset ==
    /\ out.ok
    /\ \E c \in Coins(node) :
          /\ node' = Reset(node, c)
          /\ out' = [op |-> "reset", t |-> 0, c |-> c, v |-> 0, ok |-> TRUE, pre |-> node,
                     at |-> now]
    /\ UNCHANGED <<now, dvars>>

AlgNext ==
    \/ CallSample
    \/ CallDuration
    \/ CallReset

\* Wall-clock time passes between two calls.
Advance ==
    /\ out.ok
    /\ now < MaxNow
    /\ now' = now + 1
    /\ UNCHANGED <<node, out, dvars>>

ClockNext ==
    \/ AlgNext
    \/ Advance

\* ================================================================= driver
\* The devices the client can hold and the vibration actuators of each, in
\* the order vibrate_attributes() lists them.
DeviceIds == {1, 2}
Actuators(d) == IF d = 1 THEN <<1, 2>> ELSE <<1>>
ActuatorKeys == UNION {{<<d, Actuators(d)[i]>> : i \in 1..Len(Actuators(d))} : d \in DeviceIds}

\* The patterns the owning application installs.
GlobalChoices == {Linear(0, 10, 10), RepeatOf(RandomWalkNew(0, 100, 10, 60, 20), 2)}
OverrideChoices == {Constant(60, 30), RandomWalkNew(0 - 20, 20, 4, 20, 20)}
TickRates == {0, 10, 600, 2000}

\* Driver::new: 10 Hz, the given global pattern, no overrides
DefaultTickrate == 10

Idle ==
    /\ pc = "idle"
    /\ running = TRUE
    /\ caller_cleared = FALSE
    /\ period = 0
    /\ intervals = 0
    /\ elapsed = 0
    /\ global_intensity = 0
    /\ snapshot = <<>>
    /\ di = 1
    /\ ai = 1
    /\ actuator_map = <<>>
    /\ sent = <<>>
    /\ ticks = 0
    /\ stops = 0
    /\ result = "none"
    /\ runs = 0
    /\ ops = 0

New(p) ==
    /\ tickrate_hz = DefaultTickrate
    /\ pattern = p
    /\ device_patterns = <<>>
    /\ actuator_patterns = <<>>
    /\ Idle

Init ==
    /\ \E p \in GlobalChoices : New(p)
    /\ connected = DeviceIds
    /\ AlgIdle

loopvars == <<running, caller_cleared, period, intervals, elapsed, global_intensity,
              snapshot, di, ai, actuator_map, sent, ticks, stops, result, runs>>

\* A configuration call takes &mut self: it cannot overlap a run.
Configure ==
    /\ pc = "idle"
    /\ ops < MaxOps
    /\ ops' = ops + 1
    /\ UNCHANGED <<connected, pc, loopvars, avars>>

set_tickrate(hz) ==
    /\ Configure
    /\ tickrate_hz' = hz
    /\ UNCHANGED <<pattern, device_patterns, actuator_patterns>>

set_pattern(p) ==
    /\ Configure
    /\ pattern' = p
    /\ UNCHANGED <<tickrate_hz, device_patterns, actuator_patterns>>

\* HashMap::insert: adds the key or replaces its value
Insert(m, k, v) == [x \in DOMAIN m \cup {k} |-> IF x = k THEN v ELSE m[x]]
\* HashMap::remove: a no-op when the key is absent
Remove(m, k) == [x \in DOMAIN m \ {k} |-> m[x]]

set_device_pattern(d, p) ==
    /\ Configure
    /\ device_patterns' = Insert(device_patterns, d, p)
    /\ UNCHANGED <<tickrate_hz, pattern, actuator_patterns>>

remove_device_pattern(d) ==
    /\ Configure
    /\ device_patterns' = Remove(device_patterns, d)
    /\ UNCHANGED <<tickrate_hz, pattern, actuator_patterns>>

set_actuator_pattern(d, a, p) ==
    /\ Configure
    /\ actuator_patterns' = Insert(actuator_patterns, <<d, a>>, p)
    /\ UNCHANGED <<tickrate_hz, pattern, device_patterns>>

remove_actuator_pattern(d, a) ==
    /\ Configure
    /\ actuator_patterns' = Remove(actuator_patterns, <<d, a>>)
    /\ UNCHANGED <<tickrate_hz, pattern, device_patterns>>

\* The client is shared: devices come and go at any time.  The Driver looks
\* at the client only at the start of a tick, where it takes the device list,
\* so every change shows there: between two ticks, or before the first.
Connect(d) ==
    /\ pc = "loop"
    /\ d \notin connected
    /\ connected' = connected \cup {d}
    /\ UNCHANGED <<tickrate_hz, pattern, device_patterns, actuator_patterns, pc,
                   loopvars, ops, avars>>

Disconnect(d) ==
    /\ pc = "loop"
    /\ d \in connected
    /\ connected' = connected \ {d}
    /\ UNCHANGED <<tickrate_hz, pattern, device_patterns, actuator_patterns, pc,
                   loopvars, ops, avars>>

\* run_while, lines 258-260: reset the global pattern and every override
\* (none of the patterns installed in the Driver draws in reset)
ResetAll(m) == [k \in DOMAIN m |-> Reset(m[k], <<>>)]

\* Duration::from_millis(1000 / self.tickrate_hz): u64 division
IntervalPeriod(hz) == 1000 \div hz

\* run_while up to the loop.  1000 / 0 panics, and so does tokio's interval()
\* on a zero period; both unwind out of run_while.
run_while(flag) ==
    /\ pc = "idle"
    /\ runs < MaxRuns
    /\ runs' = runs + 1
    /\ pattern' = Reset(pattern, <<>>)
    /\ device_patterns' = ResetAll(device_patterns)
    /\ actuator_patterns' = ResetAll(actuator_patterns)
    /\ running' = flag
    /\ caller_cleared' = FALSE
    /\ elapsed' = 0
    /\ intervals' = 0
    /\ ticks' = 0
    /\ stops' = 0
    /\ sent' = <<>>
    /\ result' = "none"
    /\ IF tickrate_hz = 0 \/ IntervalPeriod(tickrate_hz) = 0
       THEN /\ pc' = "panicked"
            /\ period' = 0
       ELSE /\ pc' = "loop"
            /\ period' = IntervalPeriod(tickrate_hz)
    /\ UNCHANGED <<tickrate_hz, connected, global_intensity, snapshot, di, ai,
                   actuator_map, ops, avars>>

\* run: self.run_while(AtomicBool::new(true))
run == run_while(TRUE)

\* The caller of run_while clears the flag it holds.  `running` was moved into
\* run_while by value, so the store cannot reach the flag the loop reads.
CallerClearsFlag ==
    /\ pc \in {"loop", "devices"}
    /\ ~caller_cleared
    /\ caller_cleared' = TRUE
    /\ UNCHANGED <<tickrate_hz, pattern, device_patterns, actuator_patterns, connected,
                   pc, running, period, intervals, elapsed, global_intensity, snapshot,
                   di, ai, actuator_map, sent, ticks, stops, result, runs, ops, avars>>

\* `elapsed` holds the whole milliseconds of start.elapsed().  The instant
\* read lies strictly inside that millisecond (the code between `start` and
\* the read takes time), so `elapsed > duration` holds from elapsed = duration on.
Expired(e, d) == e >= d

\* A device list that holds the first connected device only.
DeviceListFirst(S) ==
    IF 1 \in S THEN <<1>> ELSE IF 2 \in S THEN <<2>> ELSE <<>>

\* The Vec of buttplug.devices(), taken once per tick
DeviceList(S) ==
    IF S = {} THEN <<>>
    ELSE IF S = {1} THEN <<1>>
    ELSE IF S = {2} THEN <<2>>
    ELSE <<1, 2>>

\* The top of the loop: the flag, the duration check, the global sample.
LoopTop ==
    /\ pc = "loop"
    /\ IF ~running \/ Expired(elapsed, Duration(pattern))
       THEN /\ pc' = "stop"
            /\ UNCHANGED <<pattern, global_intensity, snapshot, di, ai, actuator_map,
                           sent, ticks>>
       ELSE \E c \in Coins(pattern) :
            LET r == Sample(pattern, elapsed, c)
            IN  /\ pattern' = r.n
                /\ global_intensity' = r.v
                /\ snapshot' = DeviceList(connected)
                /\ di' = 1
                /\ ai' = 1
                /\ actuator_map' = <<>>
                /\ sent' = <<>>
                /\ ticks' = ticks + 1
                /\ pc' = IF r.ok THEN "devices" ELSE "panicked"
    /\ UNCHANGED <<tickrate_hz, device_patterns, actuator_patterns, connected, running,
                   caller_cleared, period, intervals, elapsed, stops, result, runs, ops,
                   avars>>

\* The level of one actuator when the device override is consulted first.
LevelDeviceFirst(hasAct, actV, hasDev, devV, g) ==
    IF hasDev THEN devV ELSE IF hasAct THEN actV ELSE g

\* The level of one actuator when an actuator without any override is given
\* silence instead of the tick's global sample.
LevelNoGlobal(hasAct, actV, hasDev, devV, g) ==
    IF hasAct THEN actV ELSE IF hasDev THEN devV ELSE 0

\* actuator_patterns.get_mut(..).map(sample)
\*     .unwrap_or(device_patterns.get_mut(..).map(sample).unwrap_or(global_intensity))
Level(hasAct, actV, hasDev, devV, g) ==
    IF hasAct THEN actV ELSE IF hasDev THEN devV ELSE g

\* One iteration of the actuator loop.  unwrap_or takes a value, not a
\* closure: the device override is sampled whether or not the actuator has
\* an override of its own.
ActuatorStep(ca, cd) ==
    /\ pc = "devices"
    /\ di <= Len(snapshot)
    /\ ai <= Len(Actuators(snapshot[di]))
    /\ LET d == snapshot[di]
           a == Actuators(d)[ai]
           hasAct == <<d, a>> \in DOMAIN actuator_patterns
           hasDev == d \in DOMAIN device_patterns
           ra == IF hasAct THEN Sample(actuator_patterns[<<d, a>>], elapsed, ca)
                 ELSE Out(0, Pause(2))
           rd == IF hasDev THEN Sample(device_patterns[d], elapsed, cd)
                 ELSE Out(0, Pause(2))
       IN  /\ actuator_patterns' =
                 IF hasAct THEN [actuator_patterns EXCEPT ![<<d, a>>] = ra.n]
                 ELSE actuator_patterns
           /\ device_patterns' =
                 IF hasDev /\ ra.ok THEN [device_patterns EXCEPT ![d] = rd.n]
                 ELSE device_patterns
           /\ IF ra.ok /\ rd.ok
              THEN /\ actuator_map' =
                        Insert(actuator_map, a, Level(hasAct, ra.v, hasDev, rd.v,
                                                      global_intensity))
                   /\ ai' = ai + 1
                   /\ pc' = "devices"
              ELSE /\ pc' = "panicked"
                   /\ UNCHANGED <<actuator_map, ai>>
    /\ UNCHANGED <<tickrate_hz, pattern, connected, running, caller_cleared, period,
                   intervals, elapsed, global_intensity, snapshot, di, sent, ticks,
                   stops, result, runs, ops, avars>>

\* device.vibrate(ScalarValueMap(actuator_map)).await?  On Err the `?`
\* returns from run_while at once.
Vibrate(ok) ==
    /\ pc = "devices"
    /\ di <= Len(snapshot)
    /\ ai > Len(Actuators(snapshot[di]))
    /\ IF ok
       THEN /\ sent' = Append(sent, <<snapshot[di], actuator_map>>)
            /\ di' = di + 1
            /\ ai' = 1
            /\ actuator_map' = <<>>
            /\ UNCHANGED <<pc, result>>
       ELSE /\ pc' = "returned"
            /\ result' = "err"
            /\ UNCHANGED <<sent, di, ai, actuator_map>>
    /\ UNCHANGED <<tickrate_hz, pattern, device_patterns, actuator_patterns, connected,
                   running, caller_cleared, period, intervals, elapsed, global_intensity,
                   snapshot, ticks, stops, runs, ops, avars>>

\* interval.tick().await: the first call returns at once, call k + 1 returns
\* k periods after the interval was made.
IntervalTick ==
    /\ pc = "devices"
    /\ di > Len(snapshot)
    /\ intervals' = intervals + 1
    /\ elapsed' = Max(elapsed, intervals * period)
    /\ pc' = "loop"
    /\ UNCHANGED <<tickrate_hz, pattern, device_patterns, actuator_patterns, connected,
                   running, caller_cleared, period, global_intensity, snapshot, di, ai,
                   actuator_map, sent, ticks, stops, result, runs, ops, avars>>

\* self.buttplug.stop_all_devices().await, whose result run_while returns
StopAll(ok) ==
    /\ pc = "stop"
    /\ stops' = stops + 1
    /\ result' = IF ok THEN "ok" ELSE "err"
    /\ pc' = "returned"
    /\ UNCHANGED <<tickrate_hz, pattern, device_patterns, actuator_patterns, connected,
                   running, caller_cleared, period, intervals, elapsed, global_intensity,
                   snapshot, di, ai, actuator_map, sent, ticks, runs, ops, avars>>

\* The caller takes the Result; the locals of run_while are gone.
Returned ==
    /\ pc = "returned"
    /\ pc' = "idle"
    /\ running' = TRUE
    /\ caller_cleared' = FALSE
    /\ period' = 0
    /\ intervals' = 0
    /\ elapsed' = 0
    /\ global_intensity' = 0
    /\ snapshot' = <<>>
    /\ di' = 1
    /\ ai' = 1
    /\ actuator_map' = <<>>
    /\ sent' = <<>>
    /\ ticks' = 0
    /\ stops' = 0
    /\ result' = "none"
    /\ UNCHANGED <<tickrate_hz, pattern, device_patterns, actuator_patterns, connected,
                   runs, ops, avars>>

Next ==
    \/ \E hz \in TickRates : set_tickrate(hz)
    \/ \E p \in GlobalChoices : set_pattern(p)
    \/ \E d \in DeviceIds, p \in OverrideChoices : set_device_pattern(d, p)
    \/ \E d \in DeviceIds : remove_device_pattern(d)
    \/ \E k \in ActuatorKeys, p \in OverrideChoices : set_actuator_pattern(k[1], k[2], p)
    \/ \E k \in ActuatorKeys : remove_actuator_pattern(k[1], k[2])
    \/ \E d \in DeviceIds : Connect(d)
    \/ \E d \in DeviceIds : Disconnect(d)
    \/ run
    \/ \E flag \in BOOLEAN : run_while(flag)
    \/ LoopTop
    \/ \E ca \in [1..1 -> BOOLEAN], cd \in [1..1 -> BOOLEAN] : ActuatorStep(ca, cd)
    \/ \E ok \in BOOLEAN : Vibrate(ok)
    \/ IntervalTick
    \/ \E ok \in BOOLEAN : StopAll(ok)
    \/ Returned

Spec == Init /\ [][Next]_vars

\* The Driver together with a caller that tries to cancel a run.
NextCancel == Next \/ CallerClearsFlag
SpecCancel == Init /\ [][NextCancel]_vars

\* The algebra harness: one pattern value, any of its three methods.
AlgInit ==
    /\ now = 0
    /\ node \in Trees
    /\ out = NoCall
    /\ New(Linear(0, 10, 10))
    /\ connected = DeviceIds

SpecAlgebra == AlgInit /\ [][AlgNext]_vars

\* The RandomEvery harness: a generator made at instant 0 whose interval is
\* 2 ms, its three methods, and the clock.
RandomEveryValues ==
    {RandomEveryNew(0, 80, 4, 2, coin) : coin \in BOOLEAN}
        \cup {RandomEveryNew(20, 100, 2, 1, coin) : coin \in BOOLEAN}

ClockInit ==
    /\ now = 0
    /\ node \in RandomEveryValues
    /\ out = NoCall
    /\ New(Linear(0, 10, 10))
    /\ connected = DeviceIds

SpecClock == ClockInit /\ [][ClockNext]_vars

\* ------------------------------------------------ claims about the algebra
RECURSIVE AllWalksInitial(_)
AllWalksInitial(n) ==
    CASE n.kind = "RandomWalk" -> n.state = 0
      [] n.kind \in UnaryKinds -> AllWalksInitial(n.pattern)
      [] n.kind \in BinaryABKinds -> AllWalksInitial(n.a) /\ AllWalksInitial(n.b)
      [] n.kind \in ChainKinds -> AllWalksInitial(n.first) /\ AllWalksInitial(n.then)
      [] n.kind = "AmplitudeModulator" ->
            AllWalksInitial(n.pattern) /\ AllWalksInitial(n.modulator)
      [] OTHER -> TRUE

IsCombinator(n) ==
    n.kind \in UnaryKinds \cup BinaryABKinds \cup ChainKinds \cup {"AmplitudeModulator"}

\* C5: reset() on a combinator node resets every child, so right after a
\* reset every RandomWalk nested anywhere in the tree has state 0.
C5_ResetReachesEveryChild ==
    (out.op = "reset" /\ IsCombinator(node)) => AllWalksInitial(node)

\* C6: chain(a, b).duration() is a.duration() + b.duration(), and
\* chain(a, b).sample(t) is a.sample(t) when t < a.duration() and
\* b.sample(t - a.duration()) otherwise.
C6_ChainContract ==
    /\ (out.op = "duration" /\ node.kind = "Chain") =>
            out.v = Duration(node.first) + Duration(node.then)
    /\ (out.op = "sample" /\ out.pre.kind = "Chain") =>
            out.v = (IF out.t < Duration(out.pre.first)
                     THEN Sample(out.pre.first, out.t, out.c).v
                     ELSE Sample(out.pre.then, out.t - Duration(out.pre.first),
                                 RestCoins(out.c, out.pre.first)).v)

\* C7: repeat(p, n).duration() is n * p.duration(), and within that duration
\* repeat(p, n).sample(k * p.duration() + x) is p.sample(x) for 0 <= x < p.duration().
C7_RepeatPeriodic ==
    /\ (out.op = "duration" /\ node.kind = "Repeat") =>
            2 * out.v = node.count2 * Duration(node.pattern)
    /\ (out.op = "sample" /\ out.pre.kind = "Repeat" /\ out.t < Duration(out.pre)) =>
            out.v = Sample(out.pre.pattern, out.t % Duration(out.pre.pattern), out.c).v

\* C8: a Crossfade with overlap 0 has the duration of the Chain of the same
\* two patterns, and every sample() of it returns what the Chain returns and
\* leaves the two children as the Chain leaves them.
C8_CrossfadeZeroIsChain ==
    /\ (out.op = "duration" /\ node.kind = "Crossfade" /\ node.overlap_duration = 0) =>
            out.v = Duration(ChainOf(node.first, node.then))
    /\ (out.op = "sample" /\ out.pre.kind = "Crossfade" /\ out.pre.overlap_duration = 0) =>
            LET r == Sample(ChainOf(out.pre.first, out.pre.then), out.t, out.c)
            IN  /\ out.ok /\ r.ok
                /\ out.v = r.v
                /\ node.first = r.n.first
                /\ node.then = r.n.then

\* C8 witness: a zero-overlap Crossfade sampled past the end of `first`, where
\* `then` is a ramp whose value tells the time it was sampled at.
C8_Witness ==
    /\ out.op = "sample"
    /\ out.pre.kind = "Crossfade"
    /\ out.pre.overlap_duration = 0
    /\ out.pre.then.kind = "Linear"
    /\ out.t > Duration(out.pre.first)

\* C11: shift(p, d).duration() returns, and returns p.duration() - d when
\* d <= p.duration() and the zero duration when d > p.duration().
C11_ShiftDuration ==
    (out.op = "duration" /\ node.kind = "Shift") =>
        /\ out.ok
        /\ out.v = IF node.time_shift <= Duration(node.pattern)
                   THEN Duration(node.pattern) - node.time_shift
                   ELSE 0

\* C12: scale_time(p, s).sample(t) returns p.sample(s * t), and
\* scale_time(p, s).duration() is p.duration().
C12_ScaleTimeLinear ==
    /\ (out.op = "duration" /\ node.kind = "ScaleTime") =>
            out.v = Duration(node.pattern)
    /\ (out.op = "sample" /\ out.pre.kind = "ScaleTime") =>
            /\ out.ok
            /\ out.v = Sample(out.pre.pattern, out.pre.scalar * out.t, out.c).v

\* C15: the state of a RandomWalk, and every value its sample() returns, lie
\* within [range.start, range.end]; a sample moves the state by +increase
\* when the candidate exceeds it and by -decrease otherwise, and clamps the
\* state to the range.
C15_RandomWalkInRange ==
    /\ node.kind = "RandomWalk" => (node.start <= node.state /\ node.state <= node.end)
    /\ (out.op = "sample" /\ out.pre.kind = "RandomWalk") =>
            /\ out.v = node.state
            /\ node.state =
                  Min(Max(out.pre.state + (IF RandomWalkExceeds(out.pre, out.c[1])
                                           THEN out.pre.increase
                                           ELSE 0 - out.pre.decrease),
                          out.pre.start), out.pre.end)

\* C17: a sample() of a RandomEvery made no more than `interval` after its
\* value was drawn returns that value and draws nothing; a sample() made
\* later than that draws anew; reset() draws anew.
C17_RandomEveryHolds ==
    /\ (out.op = "sample" /\ out.pre.kind = "RandomEvery") =>
            IF out.at - out.pre.drawn_at > out.pre.interval
            THEN node.drawn_at = out.at
            ELSE out.v = out.pre.last_value /\ node.drawn_at = out.pre.drawn_at
    /\ (out.op = "reset" /\ out.pre.kind = "RandomEvery") => node.drawn_at = out.at

\* ------------------------------------------------- claims about the Driver
\* C1: every run that returns has issued stop-all exactly once, whether it
\* ended by duration expiry, by the flag, or by a failed vibrate command.
C1_StopAllOncePerRun ==
    pc = "returned" => stops = 1

\* The state of the random walk inside a pattern that has one.
RECURSIVE WalkState(_)
WalkState(n) ==
    IF n.kind = "RandomWalk" THEN n.state ELSE WalkState(n.pattern)

\* What the latest sample() of n, made at time t, returned: a stateless
\* pattern is a function of t, and a random walk, bare or under Repeat or
\* Forever, returns its new state.
LastValue(n, t) ==
    IF NumRandom(n) = 0 THEN Sample(n, t, <<>>).v ELSE WalkState(n)

\* C2: the level just entered for actuator a of device d is the sample of the
\* actuator override registered for (d, a) if there is one, else the sample of
\* the device override registered for d if there is one, else the tick's
\* sample of the global pattern.
C2_OverrideResolution ==
    (pc = "devices" /\ di <= Len(snapshot) /\ ai > 1) =>
        LET d == snapshot[di]
            a == Actuators(d)[ai - 1]
        IN  /\ a \in DOMAIN actuator_map
            /\ actuator_map[a] =
                  IF <<d, a>> \in DOMAIN actuator_patterns
                  THEN LastValue(actuator_patterns[<<d, a>>], elapsed)
                  ELSE IF d \in DOMAIN device_patterns
                  THEN LastValue(device_patterns[d], elapsed)
                  ELSE LastValue(pattern, elapsed)

\* C2 witness: device 1 has a device override and an override on actuator 1
\* only; in one tick actuator 1 got the actuator override's value, actuator 2
\* the device override's, and the two differ from each other and from the
\* global sample.
C2_Witness ==
    /\ pc = "devices"
    /\ di <= Len(snapshot)
    /\ snapshot[di] = 1
    /\ ai = 3
    /\ DOMAIN actuator_patterns = {<<1, 1>>}
    /\ DOMAIN device_patterns = {1}
    /\ actuator_map[1] = LastValue(actuator_patterns[<<1, 1>>], elapsed)
    /\ actuator_map[2] = LastValue(device_patterns[1], elapsed)
    /\ actuator_map[1] # actuator_map[2]
    /\ actuator_map[2] # global_intensity
    /\ actuator_map[1] # global_intensity

C4_RunStartsFromInitialState ==
    (pc = "loop" /\ ticks = 0) =>
        /\ AllWalksInitial(pattern)
        /\ \A d \in DOMAIN device_patterns : AllWalksInitial(device_patterns[d])
        /\ \A k \in DOMAIN actuator_patterns : AllWalksInitial(actuator_patterns[k])

\* ceil(D * r) for D in milliseconds and r in Hz
ExpectedTicks(d, hz) == (d * hz + 999) \div 1000

\* C9: a run that ends by duration expiry has executed ceil(D * r) ticks,
\* give or take one.
C9_TickCount ==
    (pc = "stop" /\ running) =>
        /\ ticks - ExpectedTicks(Duration(pattern), tickrate_hz) <= 1
        /\ ExpectedTicks(Duration(pattern), tickrate_hz) - ticks <= 1

\* C10: the stored tick rate is always greater than 0, and no run dies of a
\* zero tick rate.
C10_TickrateNonZero ==
    /\ tickrate_hz > 0
    /\ pc = "panicked" => tickrate_hz # 0

\* Actuator a of device d has neither an actuator nor a device override.
NoOverride(d, a) ==
    /\ <<d, a>> \notin DOMAIN actuator_patterns
    /\ d \notin DOMAIN device_patterns

\* Every level of the current tick that went to an actuator without an
\* override, sent already or still in the map being filled, is the tick's
\* global sample.
SharesGlobal ==
    /\ \A i \in 1..Len(sent) : \A a \in DOMAIN sent[i][2] :
            NoOverride(sent[i][1], a) => sent[i][2][a] = global_intensity
    /\ (pc = "devices" /\ di <= Len(snapshot)) =>
            \A a \in DOMAIN actuator_map :
                NoOverride(snapshot[di], a) => actuator_map[a] = global_intensity

\* C13: a tick samples the global pattern once, at its start, whatever the
\* devices and overrides; nothing samples it again within the tick; and every
\* actuator without an override receives that one sample.
C13_GlobalSampledOncePerTick ==
    [][/\ (pc = "loop" /\ pc' = "devices") =>
              /\ ticks' = ticks + 1
              /\ global_intensity' = LastValue(pattern', elapsed)
       /\ pc = "devices" =>
              /\ pattern' = pattern
              /\ global_intensity' = global_intensity
              /\ ticks' = ticks
       /\ SharesGlobal']_vars

\* C13 witness: the second or a later tick is complete, its global sample is
\* not 0, and device 1, which has no override at all, was sent that sample
\* for both of its actuators.
C13_Witness ==
    /\ pc = "devices"
    /\ di > Len(snapshot)
    /\ ticks >= 2
    /\ global_intensity > 0
    /\ NoOverride(1, 1) /\ NoOverride(1, 2)
    /\ \E i \in 1..Len(sent) :
          /\ sent[i][1] = 1
          /\ sent[i][2][1] = global_intensity
          /\ sent[i][2][2] = global_intensity

\* The vibration actuators of device d, as a set.
ActuatorSet(d) == {Actuators(d)[j] : j \in 1..Len(Actuators(d))}

\* C14: within a tick the device list is the set of devices connected when
\* the tick began, each once; the commands sent so far went to the first
\* di - 1 of them, one each, with one entry per actuator of the device; so a
\* tick that completes has sent one such command to every listed device.
C14_OneCommandPerDevice ==
    pc = "devices" =>
        /\ Len(snapshot) = Cardinality(connected)
        /\ {snapshot[i] : i \in 1..Len(snapshot)} = connected
        /\ Len(sent) = di - 1
        /\ \A i \in 1..Len(sent) :
              /\ sent[i][1] = snapshot[i]
              /\ DOMAIN sent[i][2] = ActuatorSet(snapshot[i])

\* C14 witness: the second or a later tick is complete with device 1 gone:
\* the one command of the tick went to device 2 and has its one entry.
C14_Witness ==
    /\ pc = "devices"
    /\ ticks >= 2
    /\ connected = {2}
    /\ di > Len(snapshot)
    /\ Len(sent) = 1
    /\ sent[1][1] = 2
    /\ DOMAIN sent[1][2] = {1}

\* C16: the step of the actuator loop for an actuator that has an override of
\* its own does not sample the device override: the device overrides are as
\* they were.
C16_DeviceOverrideLazy ==
    [][(/\ pc = "devices"
        /\ di <= Len(snapshot)
        /\ ai <= Len(Actuators(snapshot[di]))
        /\ <<snapshot[di], Actuators(snapshot[di])[ai]>> \in DOMAIN actuator_patterns)
            => device_patterns' = device_patterns]_vars

\* C18: a run does not die; no tick samples at an elapsed time above the
\* duration of the global pattern; and the number of ticks is bounded by
\* that duration and the tick period alone.
C18_RunReturns ==
    /\ pc # "panicked"
    /\ pc = "devices" => elapsed <= Duration(pattern)
    /\ pc \in {"loop", "devices", "stop"} => ticks <= Duration(pattern) \div period + 2

====
